---- MODULE Spec2Model ----
(***************************************************************************)
(* Shared test-container brokers (SharedElasticsearch, SharedMongoDB,      *)
(* SharedPostgreSQL): Start / Stop with the RWMutex, the sync.Once, the    *)
(* atomic reference counter, the two provisioner variants and the          *)
(* process-level CleanupSharedResources; the TestDependenciesBuilder that   *)
(* acquires several brokers in parallel (Build / Cleanup); the             *)
(* IntegrationTestSuite built on them (Setup, Teardown, the data-wipes,    *)
(* WaitForIndexing); and the tenant-scoped ProductRepository on the        *)
(* shared Elasticsearch index, with its JSON encoding.                     *)
(*                                                                         *)
(* Each goroutine is a thread with a program counter; one step of the      *)
(* model is one stretch of code between two points at which another        *)
(* goroutine can observe or change what the stretch uses.                  *)
(***************************************************************************)
EXTENDS Integers, Sequences, FiniteSets, TLC

\* ---------------------------------------------------------------- bounds
NumThreads == 2
MaxCalls == 3
MaxProv == 2
MaxKills == 1
MaxShutdowns == 1
NumCallers == 2
MaxBuilds == 2
MaxCleanups == 1
MaxReleases == 2
NumObjs == 2
NumTenants == 2
NumIDs == 2
NumCats == 2
MaxWrites == 3
NumFiles == 2
MaxStopFails == 1
NumNames == 2
NumPrices == 2
MaxCreates == 2

Threads == 1..NumThreads
Kinds == {"es", "mongo", "pg"}
Nil == 0
NoErr == "nil"

\* the goroutine a Build starts for a kind, and the goroutines that call
\* Build and Cleanup
TaskOf(k) == CASE k = "es" -> 1 [] k = "mongo" -> 2 [] k = "pg" -> 3
Callers == 4..(3 + NumCallers)
BProcs == 1..(3 + NumCallers)
Objs == {"b", "bundle"}

\* the places data-wipes clean: the Elasticsearch cluster, the two MongoDB
\* databases (main and DW), the PostgreSQL database
Stores == {"es", "mongo", "mongoDW", "pg"}

\* indices, collections and tables by number; SystemObj is a dot-prefixed
\* index, a system collection, a table outside schema public
SystemObj == 0
Objects == 0..NumObjs

\* tenant IDs, document IDs and categories of the products index
Tenants == 1..NumTenants
IDs == 1..NumIDs
Cats == 1..NumCats

\* SQL initialization files, numbered in the order a test lists them, and
\* the lists a caller passes to Start: the first n files, n = 0 for none
Files == 1..NumFiles
FileLists == {[i \in 1..n |-> i] : n \in 0..NumFiles}

VARIABLES
    focus,        \* the broker kind the goroutines of this run share
    envReuse,     \* strconv.ParseBool(os.Getenv("TEST_CONTAINER_REUSE"))
    useExternal,  \* strconv.ParseBool(os.Getenv("USE_EXTERNAL_<KIND>"))
    singleton,    \* [Kinds -> BOOLEAN]  sharedES / sharedMongo / sharedPG != nil
    mu,           \* [Kinds -> 0..NumThreads]  goroutine holding s.mu.Lock, 0 = free
    started,      \* [Kinds -> BOOLEAN]  s.started
    client,       \* [Kinds -> handle]   s.client / s.connection, Nil = nil
    container,    \* [Kinds -> BOOLEAN]  s.container != nil
    onceDone,     \* [Kinds -> BOOLEAN]  s.startOnce has run its function
    refCount,     \* [Kinds -> Int]      s.refCount
    closed,       \* set of handles that were closed / disconnected
    alive,        \* [Kinds -> BOOLEAN]  the backing service answers
    instances,    \* [Kinds -> Nat]      physical containers running
    terminated,   \* [Kinds -> Nat]      container.Terminate calls made
    provCount,    \* [Kinds -> Nat]      startContainer runs
    kills,        \* number of outages of the backing service so far
    shutdowns,    \* number of CleanupSharedResources calls so far
    crashed,      \* the process died of an unrecovered panic
    pc,           \* [Threads -> position in the code]
    target,       \* [Threads -> kind the call in progress acts on]
    err,          \* [Threads -> the local `err` of Start]
    stale,        \* [Threads -> handle the double-check probe of this call found dead]
    held,         \* [Threads -> [Kinds -> Nat]] successful Starts not yet released
    calls,        \* number of Start calls made so far, by all goroutines
    needs,        \* kinds with b.needsPostgres / needsMongo / needsElasticsearch set
    built,        \* b.built of the builder (the returned copy has built: true)
    bmu,          \* [Objs -> caller holding the object's mu, 0 = free]
    cleanupFuncs, \* b.cleanupFuncs: the kind each registered callback stops
    errors,       \* kinds in the `errors` slice of the Build in progress
    task,         \* [Kinds -> state of the goroutine of the Build in progress]
    mode,         \* [Callers -> position of the caller in Build / Cleanup]
    obj,          \* [Callers -> the object the call in progress is made on]
    idx,          \* [Callers -> cleanupFuncs entries cleanup() has still to run]
    bres,         \* [Callers -> what the caller's last Build returned]
    stops,        \* [Callers -> [Kinds -> Stop calls made by the call in progress]]
    pre,          \* [Kinds -> refCount when the Build in progress was called]
    builds,       \* number of Build calls that went past the built guard
    cleanups,     \* number of Cleanup calls made so far
    store,        \* [IDs -> document of the products index, NoDoc = absent]
    mine,         \* [Tenants -> [IDs -> the product the tenant created last]]
    writes,       \* number of Create calls made so far
    sqlFilePaths, \* s.sqlFilePaths of SharedPostgreSQL
    sqlCount,     \* [Files -> times the file was executed against the PostgreSQL instance]
    sqlRun,       \* files the last run of executeInitialSQL executed
    stopFailed,   \* [Callers -> kinds whose Stop met a failure in the call in progress]
    stopFails,    \* number of Stop failures so far
    variant,      \* which IntegrationTestSuite source the tests are built with
    sbuilder,     \* s.builder != nil
    conns,        \* kinds with builder.ESConn / MongoConn / PostgresConn != nil
    stage,        \* [Threads -> where the test of the goroutine is with its suite]
    op,           \* the suite operation that ended last
    res,          \* how it ended: "ok", "failed" (t.FailNow) or "panic"
    wiped,        \* [Kinds -> data-wipes of the kind it invoked]
    wipeErr,      \* kinds whose data-wipe returned an error to it
    unrefreshed,  \* writes to Elasticsearch no refresh has followed yet
    arg,          \* the product p of the test
    docs,         \* [document ID -> JSON document of the products index]
    created,      \* what Create(p) returned: "none" (not called), "ok", "err"
    got,          \* <<id, tenantID, result>> of the GetByID made since the last write
    written,      \* product IDs a Create that returned nil was called with
    creates,      \* number of Create calls made so far
    bulk,         \* the products a test created one after the other
    found,        \* <<category, tenantID, hits>> of the search made since the last Create
    svc,          \* the last ProductService call: what it returned and what it called
    objs,         \* [Stores -> the indices / collections that exist, the tables that hold rows]
    wret,         \* the last data-wipe: what it returned and what it left behind
    sqlArgs       \* [Threads -> the sqlFilePaths argument of the goroutine's Start call]

brokerVars == <<singleton, mu, started, client, container, onceDone, refCount>>
worldVars == <<closed, alive, instances, terminated, provCount, kills, shutdowns, crashed>>
threadVars == <<pc, target, err, stale, held, calls>>
envVars == <<focus, envReuse, useExternal>>
buildVars == <<needs, built, bmu, cleanupFuncs, errors, task, mode, obj, idx,
               bres, stops, pre, builds, cleanups>>
repoVars == <<store, mine, writes>>
sqlVars == <<sqlFilePaths, sqlCount, sqlRun>>
failVars == <<stopFailed, stopFails>>
suiteVars == <<variant, sbuilder, conns, stage, op, res, wiped, wipeErr, unrefreshed>>
rtVars == <<arg, docs, created, got, written, creates>>
searchVars == <<bulk, found>>
svcVars == <<svc>>
wipeVars == <<objs, wret>>
lateVars == <<searchVars, svcVars, wipeVars, sqlArgs>>
vars == <<envVars, brokerVars, worldVars, threadVars, buildVars, repoVars, sqlVars,
          failVars, suiteVars, rtVars, lateVars>>

\* ------------------------------------------------------------- helpers
\* the handle a provisioning attempt creates: one fresh handle per attempt
NewHandle(k) == provCount[k] + 1

\* handles of kinds whose teardown closes them (Disconnect / Close)
ClosesHandle(k) == k \in {"mongo", "pg"}

\* shouldReuseContainer: `return reuse || true`
shouldReuseContainer == envReuse \/ TRUE

testConnection_InvertedNilCheck(k) == client[k] = Nil

\* testConnection: nil handle is an error, else Info / Ping on the handle
testConnection(k) == client[k] # Nil /\ client[k] \notin closed /\ alive[k]

\* GetClient / GetDatabase / GetDatabaseDW / GetConnection: the field under RLock
GetClient(k) == client[k]

\* the phases of startContainer for each kind and provisioner variant
Phases(k) ==
    IF useExternal
    THEN IF k = "pg" THEN {"client", "probe", "sql"} ELSE {"client", "probe"}
    ELSE CASE k = "es" -> {"container", "client", "probe"}
           [] k = "mongo" -> {"container", "address", "client", "probe"}
           [] k = "pg" -> {"container", "address", "client", "probe", "sql"}

\* setupTestcontainer of Elasticsearch panics where the others return the error
Panics(k, phase) == k = "es" /\ ~useExternal /\ phase \in {"client", "probe"}

\* a document of the products index: json tags tenant_id and category
Doc(tenantID, category) == [tenant |-> tenantID, category |-> category]
NoDoc == [tenant |-> 0, category |-> 0]

\* the brokers before any call, for the goroutines P
InitBroker(P) ==
    /\ focus \in Kinds
    /\ envReuse \in BOOLEAN
    /\ useExternal \in BOOLEAN
    /\ singleton = [k \in Kinds |-> FALSE]
    /\ mu = [k \in Kinds |-> 0]
    /\ started = [k \in Kinds |-> FALSE]
    /\ client = [k \in Kinds |-> Nil]
    /\ container = [k \in Kinds |-> FALSE]
    /\ onceDone = [k \in Kinds |-> FALSE]
    /\ refCount = [k \in Kinds |-> 0]
    /\ closed = {}
    /\ alive = [k \in Kinds |-> useExternal]
    /\ instances = [k \in Kinds |-> 0]
    /\ terminated = [k \in Kinds |-> 0]
    /\ provCount = [k \in Kinds |-> 0]
    /\ kills = 0
    /\ shutdowns = 0
    /\ crashed = FALSE
    /\ pc = [t \in P |-> "idle"]
    /\ target = [t \in P |-> focus]
    /\ err = [t \in P |-> NoErr]
    /\ stale = [t \in P |-> Nil]
    /\ held = [t \in P |-> [k \in Kinds |-> 0]]
    /\ calls = 0

\* NewTestDependenciesBuilder followed by the With... calls for the kinds N
InitBuilder(N) ==
    /\ needs = N
    /\ built = FALSE
    /\ bmu = [o \in Objs |-> 0]
    /\ cleanupFuncs = << >>
    /\ errors = {}
    /\ task = [k \in Kinds |-> "none"]
    /\ mode = [c \in Callers |-> "none"]
    /\ obj = [c \in Callers |-> "b"]
    /\ idx = [c \in Callers |-> 0]
    /\ bres = [c \in Callers |-> "none"]
    /\ stops = [c \in Callers |-> [k \in Kinds |-> 0]]
    /\ pre = [k \in Kinds |-> 0]
    /\ builds = 0
    /\ cleanups = 0
    /\ stopFailed = [c \in Callers |-> {}]
    /\ stopFails = 0

\* the products index before any Create
InitRepo ==
    /\ store = [i \in IDs |-> NoDoc]
    /\ mine = [t \in Tenants |-> [i \in IDs |-> NoDoc]]
    /\ writes = 0

\* SharedPostgreSQL{}: no file list stored, nothing executed
InitSQL ==
    /\ sqlFilePaths = << >>
    /\ sqlCount = [f \in Files |-> 0]
    /\ sqlRun = 0

\* no suite operation made yet; NewIntegrationTestSuite of part_003 unless a
\* specification chooses otherwise
InitSuiteVars ==
    /\ stage = [t \in Threads |-> "new"]
    /\ op = "none"
    /\ res = "ok"
    /\ wiped = [k \in Kinds |-> 0]
    /\ wipeErr = {}
    /\ unrefreshed = 0

InitNoSuite ==
    /\ variant = "multi"
    /\ sbuilder = FALSE
    /\ conns = {}
    /\ InitSuiteVars

\* nothing created in bulk, no search, no service call, no store objects
InitNoLate ==
    /\ bulk = << >>
    /\ found = << >>
    /\ svc = << >>
    /\ objs = [st \in Stores |-> {}]
    /\ wret = << >>
    /\ sqlArgs = [t \in Threads |-> << >>]


\* no product chosen for a round trip: the index empty, nothing called
InitNoRoundTrip ==
    /\ arg = [id |-> 1, name |-> 1, price |-> 1, tenant |-> 1]
    /\ docs = [i \in 1..(NumIDs + 1) |-> [id |-> << >>, name |-> << >>,
                                          price |-> << >>, tenant_id |-> << >>]]
    /\ created = "none"
    /\ got = << >>
    /\ written = {}
    /\ creates = 0

Init ==
    /\ InitBroker(Threads)
    /\ InitBuilder({})
    /\ InitRepo
    /\ InitSQL
    /\ InitNoSuite
    /\ InitNoRoundTrip
    /\ InitNoLate

\* ------------------------------------------------------------ Start
\* Start, fast path: RLock, read started and the handle, RUnlock
StartEnter(t, k) ==
    /\ ~crashed
    /\ pc[t] = "idle"
    /\ mu[k] = 0
    /\ singleton' = [singleton EXCEPT ![k] = TRUE]
    /\ target' = [target EXCEPT ![t] = k]
    /\ err' = [err EXCEPT ![t] = NoErr]
    /\ stale' = [stale EXCEPT ![t] = Nil]
    /\ calls' = calls + 1
    /\ pc' = [pc EXCEPT ![t] = IF started[k] /\ client[k] # Nil
                               THEN "fast_probe" ELSE "want_lock"]
    /\ UNCHANGED <<envVars, worldVars, held>>
    /\ UNCHANGED <<mu, started, client, container, onceDone, refCount>>

\* a Start call by one of the goroutines of the test run
StartCall(t, k) == calls < MaxCalls /\ StartEnter(t, k)

\* Start, fast path: testConnection without the lock
FastProbe(t) ==
    /\ ~crashed
    /\ pc[t] = "fast_probe"
    /\ pc' = [pc EXCEPT ![t] = IF testConnection(target[t])
                               THEN "fast_inc" ELSE "want_lock"]
    /\ UNCHANGED <<envVars, brokerVars, worldVars, target, err, stale, held, calls>>

FastInc_NoAdd(t) ==
    /\ ~crashed
    /\ pc[t] = "fast_inc"
    /\ held' = [held EXCEPT ![t][target[t]] = @ + 1]
    /\ pc' = [pc EXCEPT ![t] = "idle"]
    /\ UNCHANGED <<envVars, brokerVars, worldVars, target, err, stale, calls>>

\* Start, fast path: atomic.AddInt32(&s.refCount, 1); return nil
FastInc(t) ==
    /\ ~crashed
    /\ pc[t] = "fast_inc"
    /\ refCount' = [refCount EXCEPT ![target[t]] = @ + 1]
    /\ held' = [held EXCEPT ![t][target[t]] = @ + 1]
    /\ pc' = [pc EXCEPT ![t] = "idle"]
    /\ UNCHANGED <<envVars, worldVars, target, err, stale, calls>>
    /\ UNCHANGED <<singleton, mu, started, client, container, onceDone>>

\* the double-check under the lock takes the reuse path
DoubleCheckReuse(k) == started[k] /\ client[k] # Nil /\ testConnection(k)

\* Start, slow path: s.mu.Lock() and the double-check under it; a dead handle
\* resets started and the Once
StartLock(t) ==
    LET k == target[t] IN
    /\ ~crashed
    /\ pc[t] = "want_lock"
    /\ mu[k] = 0
    /\ mu' = [mu EXCEPT ![k] = t]
    /\ stale' = [stale EXCEPT ![t] =
                    IF started[k] /\ client[k] # Nil /\ ~testConnection(k)
                    THEN client[k] ELSE Nil]
    /\ IF DoubleCheckReuse(k)
       THEN /\ pc' = [pc EXCEPT ![t] = "ret_ok"]
            /\ UNCHANGED <<started, onceDone>>
       ELSE /\ pc' = [pc EXCEPT ![t] = "once"]
            /\ IF started[k] /\ client[k] # Nil
               THEN /\ started' = [started EXCEPT ![k] = FALSE]
                    /\ onceDone' = [onceDone EXCEPT ![k] = FALSE]
               ELSE UNCHANGED <<started, onceDone>>
    /\ UNCHANGED <<envVars, worldVars, target, err, held, calls>>
    /\ UNCHANGED <<singleton, client, container, refCount>>

\* outcomes of one run of startContainer, up to the assignment of the handle
Outcomes(k) == {"ok"} \cup (Phases(k) \ {"sql"})

\* the position after the `if !s.started` test that follows startOnce.Do
AfterOnce(isStarted) == IF isStarted THEN "ret_ok" ELSE "ret_err"

RunContainer_Unnamed(k) == instances[k] + 1

\* GenericContainer / RunContainer with the fixed Name of the kind and Reuse
\* (shouldReuseContainer() is always true, Elasticsearch passes true): the
\* containers of that name running afterwards; a running one is taken over
RunContainer(k) == IF instances[k] > 0 /\ shouldReuseContainer
                   THEN instances[k] ELSE instances[k] + 1

\* startContainer (setupExternal... / setupTestcontainer) with outcome o:
\* "ok", or the phase that fails
startContainer(t, k, o) ==
    /\ provCount[k] < MaxProv
    /\ o \in Outcomes(k)
    /\ (useExternal /\ o = "ok") => alive[k]
    /\ provCount' = [provCount EXCEPT ![k] = @ + 1]
    /\ onceDone' = [onceDone EXCEPT ![k] = TRUE]
    /\ instances' = IF useExternal \/ o = "container"
                    THEN instances ELSE [instances EXCEPT ![k] = RunContainer(k)]
    /\ alive' = IF useExternal \/ o = "container" THEN alive
                ELSE [alive EXCEPT ![k] = (o # "probe")]
    /\ IF o = "ok"
       THEN /\ client' = [client EXCEPT ![k] = NewHandle(k)]
            /\ container' = [container EXCEPT ![k] = @ \/ ~useExternal]
            /\ started' = [started EXCEPT ![k] = (k # "pg")]
            /\ pc' = [pc EXCEPT ![t] = IF k = "pg" THEN "sqlinit" ELSE AfterOnce(TRUE)]
            /\ UNCHANGED <<err, crashed, mu>>
       ELSE /\ UNCHANGED <<client, container, started>>
            /\ IF Panics(k, o)
               THEN /\ crashed' = TRUE
                    /\ mu' = [mu EXCEPT ![k] = 0]
                    /\ pc' = [pc EXCEPT ![t] = "panicked"]
                    /\ UNCHANGED err
               ELSE /\ err' = [err EXCEPT ![t] = o]
                    /\ pc' = [pc EXCEPT ![t] = AfterOnce(started[k])]
                    /\ UNCHANGED <<crashed, mu>>

\* Start, slow path: s.startOnce.Do(...) and the test of s.started after it
StartOnce(t, o) ==
    LET k == target[t] IN
    /\ ~crashed
    /\ pc[t] = "once"
    /\ IF onceDone[k]
       THEN /\ o = "ok"
            /\ pc' = [pc EXCEPT ![t] = AfterOnce(started[k])]
            /\ UNCHANGED <<provCount, onceDone, instances, alive, client,
                           container, started, err, crashed, mu>>
       ELSE startContainer(t, k, o)
    /\ UNCHANGED <<envVars, singleton, refCount, closed, terminated, kills,
                   shutdowns, target, stale, held, calls>>

\* executeInitialSQL inside startContainer of PostgreSQL: the connection is
\* already assigned; o is "ok" or "sql" (a file could not be read or executed)
SQLInit(t, o) ==
    LET k == target[t] IN
    /\ ~crashed
    /\ pc[t] = "sqlinit"
    /\ o \in {"ok", "sql"}
    /\ started' = [started EXCEPT ![k] = (o = "ok")]
    /\ err' = [err EXCEPT ![t] = IF o = "ok" THEN NoErr ELSE o]
    /\ pc' = [pc EXCEPT ![t] = AfterOnce(o = "ok")]
    /\ UNCHANGED <<envVars, worldVars, target, stale, held, calls>>
    /\ UNCHANGED <<singleton, mu, client, container, onceDone, refCount>>

StartRetOk_KeepsLock(t) ==
    LET k == target[t] IN
    /\ ~crashed
    /\ pc[t] = "ret_ok"
    /\ refCount' = [refCount EXCEPT ![k] = @ + 1]
    /\ held' = [held EXCEPT ![t][k] = @ + 1]
    /\ stale' = [stale EXCEPT ![t] = Nil]
    /\ pc' = [pc EXCEPT ![t] = "idle"]
    /\ UNCHANGED <<envVars, worldVars, target, err, calls>>
    /\ UNCHANGED <<singleton, mu, started, client, container, onceDone>>

\* Start, slow path: atomic.AddInt32(&s.refCount, 1); return nil (Unlock deferred)
StartRetOk(t) ==
    LET k == target[t] IN
    /\ ~crashed
    /\ pc[t] = "ret_ok"
    /\ refCount' = [refCount EXCEPT ![k] = @ + 1]
    /\ held' = [held EXCEPT ![t][k] = @ + 1]
    /\ mu' = [mu EXCEPT ![k] = 0]
    /\ stale' = [stale EXCEPT ![t] = Nil]
    /\ pc' = [pc EXCEPT ![t] = "idle"]
    /\ UNCHANGED <<envVars, worldVars, target, err, calls>>
    /\ UNCHANGED <<singleton, started, client, container, onceDone>>

StartRetErr_CountsAnyway(t) ==
    /\ ~crashed
    /\ pc[t] = "ret_err"
    /\ refCount' = [refCount EXCEPT ![target[t]] = @ + 1]
    /\ mu' = [mu EXCEPT ![target[t]] = 0]
    /\ err' = [err EXCEPT ![t] = NoErr]
    /\ stale' = [stale EXCEPT ![t] = Nil]
    /\ pc' = [pc EXCEPT ![t] = "idle"]
    /\ UNCHANGED <<envVars, worldVars, target, held, calls>>
    /\ UNCHANGED <<singleton, started, client, container, onceDone>>

\* Start, slow path: return fmt.Errorf("... not started: %w", err)
StartRetErr(t) ==
    /\ ~crashed
    /\ pc[t] = "ret_err"
    /\ mu' = [mu EXCEPT ![target[t]] = 0]
    /\ err' = [err EXCEPT ![t] = NoErr]
    /\ stale' = [stale EXCEPT ![t] = Nil]
    /\ pc' = [pc EXCEPT ![t] = "idle"]
    /\ UNCHANGED <<envVars, worldVars, target, held, calls>>
    /\ UNCHANGED <<singleton, started, client, container, onceDone, refCount>>

\* ------------------------------------------------------------- Stop
\* the decrement of Stop and its test `<= 0`
Release(t, k) ==
    /\ refCount' = [refCount EXCEPT ![k] = @ - 1]
    /\ target' = [target EXCEPT ![t] = k]
    /\ pc' = [pc EXCEPT ![t] = IF refCount[k] - 1 <= 0 THEN "stopping" ELSE "idle"]

\* Stop by a goroutine that holds a successful Start
Stop(t, k) ==
    /\ ~crashed
    /\ pc[t] = "idle"
    /\ held[t][k] > 0
    /\ Release(t, k)
    /\ held' = [held EXCEPT ![t][k] = @ - 1]
    /\ UNCHANGED <<envVars, worldVars, err, stale, calls>>
    /\ UNCHANGED <<singleton, mu, started, client, container, onceDone>>

\* stopContainer: close the handle (MongoDB, PostgreSQL), terminate the
\* container unless it is to be reused
stopContainer(t) ==
    LET k == target[t] IN
    /\ ~crashed
    /\ pc[t] = "stopping"
    /\ mu[k] = 0
    /\ closed' = IF ClosesHandle(k) /\ client[k] # Nil
                 THEN closed \cup {client[k]} ELSE closed
    /\ IF container[k] /\ ~shouldReuseContainer
       THEN /\ terminated' = [terminated EXCEPT ![k] = @ + 1]
            /\ instances' = [instances EXCEPT ![k] = 0]
            /\ alive' = [alive EXCEPT ![k] = FALSE]
       ELSE UNCHANGED <<terminated, instances, alive>>
    /\ pc' = [pc EXCEPT ![t] = "idle"]
    /\ UNCHANGED <<envVars, brokerVars, provCount, kills, shutdowns, crashed>>
    /\ UNCHANGED <<target, err, stale, held, calls>>

\* CleanupSharedResources: sharedES.Stop when the singleton exists
CleanupSharedResources(t) ==
    /\ ~crashed
    /\ pc[t] = "idle"
    /\ shutdowns < MaxShutdowns
    /\ shutdowns' = shutdowns + 1
    /\ IF singleton["es"]
       THEN Release(t, "es")
       ELSE UNCHANGED <<refCount, target, pc>>
    /\ UNCHANGED <<envVars, closed, alive, instances, terminated, provCount,
                   kills, crashed, err, stale, held, calls>>
    /\ UNCHANGED <<singleton, mu, started, client, container, onceDone>>

\* ------------------------------------------------------ environment
\* the backing service stops answering (killed or restarted from outside)
Kill(k) ==
    /\ ~crashed
    /\ alive[k]
    /\ kills < MaxKills
    /\ kills' = kills + 1
    /\ alive' = [alive EXCEPT ![k] = FALSE]
    /\ UNCHANGED <<envVars, brokerVars, threadVars, closed, instances,
                   terminated, provCount, shutdowns, crashed>>

\* the backing service answers again on the same address
Restore(k) ==
    /\ ~crashed
    /\ ~alive[k]
    /\ kills > 0
    /\ useExternal \/ instances[k] > 0
    /\ alive' = [alive EXCEPT ![k] = TRUE]
    /\ UNCHANGED <<envVars, brokerVars, threadVars, closed, instances,
                   terminated, provCount, kills, shutdowns, crashed>>

\* ---------------------------------------------------- specifications
otherVars == <<buildVars, repoVars, sqlVars, failVars, suiteVars, rtVars, lateVars>>

Next ==
    \/ \E t \in Threads : StartCall(t, focus) /\ UNCHANGED otherVars
    \/ \E t \in Threads : FastProbe(t) /\ UNCHANGED otherVars
    \/ \E t \in Threads : FastInc(t) /\ UNCHANGED otherVars
    \/ \E t \in Threads : StartLock(t) /\ UNCHANGED otherVars
    \/ \E t \in Threads : \E o \in Outcomes(focus) : StartOnce(t, o) /\ UNCHANGED otherVars
    \/ \E t \in Threads : \E o \in {"ok", "sql"} : SQLInit(t, o) /\ UNCHANGED otherVars
    \/ \E t \in Threads : StartRetOk(t) /\ UNCHANGED otherVars
    \/ \E t \in Threads : StartRetErr(t) /\ UNCHANGED otherVars
    \/ \E t \in Threads : Stop(t, focus) /\ UNCHANGED otherVars
    \/ \E t \in Threads : stopContainer(t) /\ UNCHANGED otherVars
    \/ \E t \in Threads : CleanupSharedResources(t) /\ UNCHANGED otherVars
    \/ Kill(focus) /\ UNCHANGED otherVars
    \/ Restore(focus) /\ UNCHANGED otherVars

Spec == Init /\ [][Next]_vars

\* N goroutines that only call Start, every provisioning phase succeeding
\* and the backing service staying up (a call that reached the error return
\* would stay there: the invariants of this specification exclude it)
NextStart ==
    \/ \E t \in Threads : StartCall(t, focus) /\ UNCHANGED otherVars
    \/ \E t \in Threads : FastProbe(t) /\ UNCHANGED otherVars
    \/ \E t \in Threads : FastInc(t) /\ UNCHANGED otherVars
    \/ \E t \in Threads : StartLock(t) /\ UNCHANGED otherVars
    \/ \E t \in Threads : StartOnce(t, "ok") /\ UNCHANGED otherVars
    \/ \E t \in Threads : SQLInit(t, "ok") /\ UNCHANGED otherVars
    \/ \E t \in Threads : StartRetOk(t) /\ UNCHANGED otherVars

SpecStart == Init /\ [][NextStart]_vars

TypeOK ==
    /\ focus \in Kinds
    /\ refCount \in [Kinds -> Int]
    /\ client \in [Kinds -> 0..MaxProv]
    /\ closed \subseteq 1..MaxProv
    /\ pc \in [Threads -> {"idle", "fast_probe", "fast_inc", "want_lock",
                           "once", "sqlinit", "ret_ok", "ret_err", "panicked",
                           "stopping"}]


\* ------------------------------------------------ TestDependenciesBuilder
Built_Never(o) == FALSE

\* b.built as Build reads it on object o: the copy Build returns is made with
\* built: true
Built(o) == IF o = "bundle" THEN TRUE ELSE built

\* the needs... flags of object o: the copy Build returns does not carry them
Needs(o) == IF o = "bundle" THEN {} ELSE needs

\* the copy exists once the Build that made it has returned
BundleExists == built /\ \A c \in Callers : mode[c] # "ret_ok"

\* Build: b.mu.Lock, the built guard, one goroutine per requested kind
BuildCall(c, o) ==
    /\ ~crashed
    /\ mode[c] = "none"
    /\ pc[c] = "idle"
    /\ o = "bundle" => BundleExists
    /\ bmu[o] = 0
    /\ obj' = [obj EXCEPT ![c] = o]
    /\ IF Built(o)
       THEN /\ bres' = [bres EXCEPT ![c] = o]
            /\ UNCHANGED <<bmu, errors, task, mode, stops, pre, builds, stopFailed>>
       ELSE /\ builds < MaxBuilds
            /\ builds' = builds + 1
            /\ bmu' = [bmu EXCEPT ![o] = c]
            /\ errors' = {}
            /\ task' = [k \in Kinds |-> IF k \in Needs(o) THEN "spawned" ELSE "none"]
            /\ mode' = [mode EXCEPT ![c] = "build"]
            /\ stops' = [stops EXCEPT ![c] = [k \in Kinds |-> 0]]
            /\ pre' = refCount
            /\ bres' = [bres EXCEPT ![c] = "none"]
            /\ stopFailed' = [stopFailed EXCEPT ![c] = {}]
    /\ UNCHANGED <<needs, built, cleanupFuncs, idx, cleanups, stopFails>>
    /\ UNCHANGED <<envVars, brokerVars, worldVars, threadVars, repoVars, sqlVars, suiteVars, rtVars, lateVars>>

\* the goroutine of kind k: GetSharedX() and the call of Start
TaskStart(k) ==
    /\ task[k] = "spawned"
    /\ StartEnter(TaskOf(k), k)
    /\ task' = [task EXCEPT ![k] = "running"]
    /\ UNCHANGED <<needs, built, bmu, cleanupFuncs, errors, mode, obj, idx,
                   bres, stops, pre, builds, cleanups, repoVars, sqlVars, failVars, suiteVars, rtVars, lateVars>>

\* the goroutine of kind k: Start returned nil; under the local mutex the
\* connection is taken and the Stop callback appended to b.cleanupFuncs
TaskOk(k) ==
    /\ task[k] = "running"
    /\ FastInc(TaskOf(k)) \/ StartRetOk(TaskOf(k))
    /\ task' = [task EXCEPT ![k] = "ok"]
    /\ cleanupFuncs' = Append(cleanupFuncs, k)
    /\ UNCHANGED <<needs, built, bmu, errors, mode, obj, idx, bres, stops,
                   pre, builds, cleanups, repoVars, sqlVars, failVars, suiteVars, rtVars, lateVars>>

\* the goroutine of kind k: Start returned an error; under the local mutex
\* "<kind> setup failed: ..." is appended to errors
TaskErr(k) ==
    /\ task[k] = "running"
    /\ StartRetErr(TaskOf(k))
    /\ task' = [task EXCEPT ![k] = "err"]
    /\ errors' = errors \cup {k}
    /\ UNCHANGED <<needs, built, bmu, cleanupFuncs, mode, obj, idx, bres,
                   stops, pre, builds, cleanups, repoVars, sqlVars, failVars, suiteVars, rtVars, lateVars>>

AllTasksDone_Any == \E k \in Kinds : task[k] \in {"ok", "err"}

\* wg.Wait() returns: every goroutine has run its deferred wg.Done
AllTasksDone == \A k \in Kinds : task[k] \in {"none", "ok", "err"}

\* Build after wg.Wait(): len(errors) > 0 starts b.cleanup(), otherwise
\* b.built = true
BuildWait(c) ==
    /\ ~crashed
    /\ mode[c] = "build"
    /\ AllTasksDone
    /\ IF errors # {}
       THEN /\ mode' = [mode EXCEPT ![c] = "rollback"]
            /\ idx' = [idx EXCEPT ![c] = Len(cleanupFuncs)]
            /\ UNCHANGED built
       ELSE /\ mode' = [mode EXCEPT ![c] = "ret_ok"]
            /\ built' = TRUE
            /\ UNCHANGED idx
    /\ UNCHANGED <<needs, bmu, cleanupFuncs, errors, task, obj, bres, stops,
                   pre, builds, cleanups>>
    /\ UNCHANGED <<envVars, brokerVars, worldVars, threadVars, repoVars, sqlVars, failVars, suiteVars, rtVars, lateVars>>

\* Cleanup: b.mu.Lock and the start of b.cleanup(), for at most max calls
Cleanup(c, o, max) ==
    /\ ~crashed
    /\ mode[c] = "none"
    /\ pc[c] = "idle"
    /\ o = "bundle" => BundleExists
    /\ bmu[o] = 0
    /\ cleanups < max
    /\ cleanups' = cleanups + 1
    /\ bmu' = [bmu EXCEPT ![o] = c]
    /\ obj' = [obj EXCEPT ![c] = o]
    /\ mode' = [mode EXCEPT ![c] = "cleanup"]
    /\ idx' = [idx EXCEPT ![c] = Len(cleanupFuncs)]
    /\ stops' = [stops EXCEPT ![c] = [k \in Kinds |-> 0]]
    /\ bres' = [bres EXCEPT ![c] = "none"]
    /\ stopFailed' = [stopFailed EXCEPT ![c] = {}]
    /\ UNCHANGED <<needs, built, cleanupFuncs, errors, task, pre, builds, stopFails>>
    /\ UNCHANGED <<envVars, brokerVars, worldVars, threadVars, repoVars, sqlVars, suiteVars, rtVars, lateVars>>

CleanupCall(c, o) == Cleanup(c, o, MaxCleanups)

cleanup_AlwaysFirst(c) ==
    /\ ~crashed
    /\ mode[c] \in {"rollback", "cleanup"}
    /\ pc[c] = "idle"
    /\ idx[c] > 0
    /\ Release(c, cleanupFuncs[1])
    /\ idx' = [idx EXCEPT ![c] = @ - 1]
    /\ stops' = [stops EXCEPT ![c][cleanupFuncs[1]] = @ + 1]
    /\ UNCHANGED <<needs, built, bmu, cleanupFuncs, errors, task, mode, obj,
                   bres, pre, builds, cleanups, repoVars, sqlVars, failVars, suiteVars, rtVars, lateVars>>
    /\ UNCHANGED <<envVars, worldVars, err, stale, held, calls>>
    /\ UNCHANGED <<singleton, mu, started, client, container, onceDone>>

\* cleanup(): one turn of the loop from the last registered callback to the
\* first, the callback calling Stop on its broker
cleanup(c) ==
    /\ ~crashed
    /\ mode[c] \in {"rollback", "cleanup"}
    /\ pc[c] = "idle"
    /\ idx[c] > 0
    /\ Release(c, cleanupFuncs[idx[c]])
    /\ idx' = [idx EXCEPT ![c] = @ - 1]
    /\ stops' = [stops EXCEPT ![c][cleanupFuncs[idx[c]]] = @ + 1]
    /\ UNCHANGED <<needs, built, bmu, cleanupFuncs, errors, task, mode, obj,
                   bres, pre, builds, cleanups, repoVars, sqlVars, failVars, suiteVars, rtVars, lateVars>>
    /\ UNCHANGED <<envVars, worldVars, err, stale, held, calls>>
    /\ UNCHANGED <<singleton, mu, started, client, container, onceDone>>

\* stopContainer of the broker fails where it can: Disconnect / Close returns
\* an error, which is logged, the handle staying as it was
stopContainerFails(c) ==
    LET k == target[c] IN
    /\ ~crashed
    /\ pc[c] = "stopping"
    /\ mu[k] = 0
    /\ ClosesHandle(k) /\ client[k] # Nil
    /\ pc' = [pc EXCEPT ![c] = "idle"]
    /\ UNCHANGED <<envVars, brokerVars, worldVars, target, err, stale, held, calls>>

StopCallback_AbortsOnFailure(c, fails) ==
    /\ IF fails
       THEN /\ stopFails < MaxStopFails
            /\ stopContainerFails(c)
            /\ stopFails' = stopFails + 1
            /\ stopFailed' = [stopFailed EXCEPT ![c] = @ \cup {target[c]}]
            /\ idx' = [idx EXCEPT ![c] = 0]
       ELSE /\ stopContainer(c)
            /\ UNCHANGED <<failVars, idx>>
    /\ UNCHANGED <<needs, built, bmu, cleanupFuncs, errors, task, mode, obj,
                   bres, stops, pre, builds, cleanups, repoVars, sqlVars, suiteVars, rtVars, lateVars>>

\* the callback func() { b.sharedX.Stop(ctx) } past the decrement: the
\* stopContainer of the broker, whose outcome the callback drops
StopCallback(c, fails) ==
    /\ IF fails
       THEN /\ stopFails < MaxStopFails
            /\ stopContainerFails(c)
            /\ stopFails' = stopFails + 1
            /\ stopFailed' = [stopFailed EXCEPT ![c] = @ \cup {target[c]}]
            /\ UNCHANGED idx
       ELSE /\ stopContainer(c)
            /\ UNCHANGED <<failVars, idx>>
    /\ UNCHANGED <<needs, built, bmu, cleanupFuncs, errors, task, mode, obj,
                   bres, stops, pre, builds, cleanups, repoVars, sqlVars, suiteVars, rtVars, lateVars>>

\* cleanup(): the loop is over
cleanupExit(c) ==
    /\ ~crashed
    /\ mode[c] \in {"rollback", "cleanup"}
    /\ pc[c] = "idle"
    /\ idx[c] = 0
    /\ mode' = [mode EXCEPT ![c] = IF mode[c] = "rollback"
                                   THEN "ret_fail" ELSE "ret_cleanup"]
    /\ UNCHANGED <<needs, built, bmu, cleanupFuncs, errors, task, obj, idx,
                   bres, stops, pre, builds, cleanups>>
    /\ UNCHANGED <<envVars, brokerVars, worldVars, threadVars, repoVars, sqlVars, failVars, suiteVars, rtVars, lateVars>>

\* the return of Build or Cleanup with the deferred b.mu.Unlock: the new
\* copy on success, nil and "initialization errors" on failure
Return(c) ==
    /\ ~crashed
    /\ mode[c] \in {"ret_ok", "ret_fail", "ret_cleanup"}
    /\ bmu' = [bmu EXCEPT ![obj[c]] = 0]
    /\ bres' = [bres EXCEPT ![c] = CASE mode[c] = "ret_ok" -> "bundle"
                                     [] mode[c] = "ret_fail" -> "nil"
                                     [] OTHER -> "none"]
    /\ mode' = [mode EXCEPT ![c] = "none"]
    /\ UNCHANGED <<needs, built, cleanupFuncs, errors, task, obj, idx, stops,
                   pre, builds, cleanups>>
    /\ UNCHANGED <<envVars, brokerVars, worldVars, threadVars, repoVars, sqlVars, failVars, suiteVars, rtVars, lateVars>>

NextBuild ==
    \/ \E c \in Callers : \E o \in Objs : BuildCall(c, o)
    \/ \E k \in Kinds : TaskStart(k)
    \/ \E k \in Kinds : FastProbe(TaskOf(k)) /\ UNCHANGED otherVars
    \/ \E k \in Kinds : StartLock(TaskOf(k)) /\ UNCHANGED otherVars
    \/ \E k \in Kinds : \E o \in Outcomes(k) : StartOnce(TaskOf(k), o) /\ UNCHANGED otherVars
    \/ \E o \in {"ok", "sql"} : SQLInit(TaskOf("pg"), o) /\ UNCHANGED otherVars
    \/ \E k \in Kinds : TaskOk(k)
    \/ \E k \in Kinds : TaskErr(k)
    \/ \E c \in Callers : BuildWait(c)
    \/ \E c \in Callers : CleanupCall(c, "bundle")
    \/ \E c \in Callers : cleanup(c)
    \/ \E c \in Callers : stopContainer(c) /\ UNCHANGED otherVars
    \/ \E c \in Callers : cleanupExit(c)
    \/ \E c \in Callers : Return(c)

\* a builder configured for any set of kinds, before its first Build
InitBuild ==
    /\ InitBroker(BProcs)
    /\ focus = "es"
    /\ \E N \in SUBSET Kinds : InitBuilder(N)
    /\ InitRepo
    /\ InitSQL
    /\ InitNoSuite
    /\ InitNoRoundTrip
    /\ InitNoLate

\* goroutines calling Build and Cleanup on one builder and on the copy its
\* Build returned
SpecBuild == InitBuild /\ [][NextBuild]_vars

\* Build and Cleanup when a Stop may fail; an acquisition either succeeds or
\* fails to create its client
NextStopFail ==
    \/ \E c \in Callers : \E o \in Objs : BuildCall(c, o)
    \/ \E k \in Kinds : TaskStart(k)
    \/ \E k \in Kinds : FastProbe(TaskOf(k)) /\ UNCHANGED otherVars
    \/ \E k \in Kinds : StartLock(TaskOf(k)) /\ UNCHANGED otherVars
    \/ \E k \in Kinds : \E o \in {"ok", "client"} : StartOnce(TaskOf(k), o) /\ UNCHANGED otherVars
    \/ SQLInit(TaskOf("pg"), "ok") /\ UNCHANGED otherVars
    \/ \E k \in Kinds : TaskOk(k)
    \/ \E k \in Kinds : TaskErr(k)
    \/ \E c \in Callers : BuildWait(c)
    \/ \E c \in Callers : CleanupCall(c, "bundle")
    \/ \E c \in Callers : cleanup(c)
    \/ \E c \in Callers : \E fails \in BOOLEAN : StopCallback(c, fails)
    \/ \E c \in Callers : cleanupExit(c)
    \/ \E c \in Callers : Return(c)

\* external services, so that no acquisition panics
InitStopFail == InitBuild /\ useExternal

SpecStopFail == InitStopFail /\ [][NextStopFail]_vars

\* one builder whose acquisitions all succeed, Cleanup then being called on
\* the builder and on the copy its Build returned, more than once
NextRelease ==
    \/ \E c \in Callers : \E o \in Objs : BuildCall(c, o)
    \/ \E k \in Kinds : TaskStart(k)
    \/ \E k \in Kinds : StartLock(TaskOf(k)) /\ UNCHANGED otherVars
    \/ \E k \in Kinds : StartOnce(TaskOf(k), "ok") /\ UNCHANGED otherVars
    \/ SQLInit(TaskOf("pg"), "ok") /\ UNCHANGED otherVars
    \/ \E k \in Kinds : TaskOk(k)
    \/ \E c \in Callers : BuildWait(c)
    \/ \E c \in Callers : \E o \in Objs : Cleanup(c, o, MaxReleases)
    \/ \E c \in Callers : cleanup(c)
    \/ \E c \in Callers : stopContainer(c) /\ UNCHANGED otherVars
    \/ \E c \in Callers : cleanupExit(c)
    \/ \E c \in Callers : Return(c)

SpecRelease == InitStopFail /\ [][NextRelease]_vars

\* Build and Cleanup on a builder of the kind focus while the goroutines that
\* call them also call Start and Stop on that broker directly
NextLocks ==
    \/ \E c \in Callers : \E o \in Objs : BuildCall(c, o)
    \/ TaskStart(focus)
    \/ \E c \in Callers : mode[c] = "none" /\ StartCall(c, focus) /\ UNCHANGED otherVars
    \/ \E p \in BProcs : FastProbe(p) /\ UNCHANGED otherVars
    \/ \E c \in Callers : FastInc(c) /\ UNCHANGED otherVars
    \/ \E p \in BProcs : StartLock(p) /\ UNCHANGED otherVars
    \/ \E p \in BProcs : \E o \in Outcomes(focus) : StartOnce(p, o) /\ UNCHANGED otherVars
    \/ \E c \in Callers : StartRetOk(c) /\ UNCHANGED otherVars
    \/ \E c \in Callers : StartRetErr(c) /\ UNCHANGED otherVars
    \/ TaskOk(focus)
    \/ TaskErr(focus)
    \/ \E c \in Callers : BuildWait(c)
    \/ \E c \in Callers : mode[c] = "none" /\ Stop(c, focus) /\ UNCHANGED otherVars
    \/ \E c \in Callers : CleanupCall(c, "bundle")
    \/ \E c \in Callers : cleanup(c)
    \/ \E c \in Callers : stopContainer(c) /\ UNCHANGED otherVars
    \/ \E c \in Callers : cleanupExit(c)
    \/ \E c \in Callers : Return(c)

\* NewTestDependenciesBuilder().WithElasticsearch(), USE_EXTERNAL_ES unset
InitLocks == InitBuild /\ needs = {focus} /\ ~useExternal

SpecLocks == InitLocks /\ [][NextLocks]_vars

\* ---------------------------------------------------- ProductRepository
\* Create: index the product into "products" under DocumentID product.ID with
\* Refresh "true"; a document already stored under that ID is replaced
Create(id, tenantID, category) ==
    /\ writes < MaxWrites
    /\ writes' = writes + 1
    /\ store' = [store EXCEPT ![id] = Doc(tenantID, category)]
    /\ mine' = [mine EXCEPT ![tenantID][id] = Doc(tenantID, category)]

GetByID_NoTenantCheck(id, tenantID) == store[id]

\* GetByID: 404 gives (nil, nil); a document of another tenant gives (nil, nil)
GetByID(id, tenantID) ==
    IF store[id] = NoDoc THEN NoDoc
    ELSE IF store[id].tenant # tenantID THEN NoDoc
    ELSE store[id]

\* SearchByCategory: bool/must of the two term queries on category.keyword
\* and tenant_id.keyword; the IDs of the hits.  The index of NumIDs documents
\* holds fewer than the DefaultSize hits of one response (SearchHits has the
\* response that does not)
SearchByCategory(category, tenantID) ==
    {i \in IDs : /\ store[i] # NoDoc
                 /\ store[i].category = category
                 /\ store[i].tenant = tenantID}

NextRepo ==
    \E i \in IDs : \E t \in Tenants : \E c \in Cats :
        Create(i, t, c) /\ UNCHANGED <<envVars, brokerVars, worldVars, threadVars, buildVars, sqlVars, failVars, suiteVars, rtVars, lateVars>>

\* tests of several tenants writing to the one shared index
SpecRepo == Init /\ [][NextRepo]_vars

\* ------------------------------------------- SQL initialization files
\* Start(ctx, sqlFilePaths...) of SharedPostgreSQL under the lock, called with
\* the list files: when the double-check does not reuse,
\* s.sqlFilePaths = sqlFilePaths
StartLockSQL(t, files) ==
    /\ StartLock(t)
    /\ sqlFilePaths' = IF DoubleCheckReuse("pg") THEN sqlFilePaths ELSE files
    /\ UNCHANGED <<buildVars, repoVars, failVars, suiteVars, rtVars, lateVars, sqlCount, sqlRun>>

\* startOnce.Do of SharedPostgreSQL: a container that is newly created has
\* received no file
StartOnceSQL(t, o) ==
    /\ StartOnce(t, o)
    /\ sqlCount' = IF instances["pg"] = 0 /\ instances'["pg"] = 1
                   THEN [f \in Files |-> 0] ELSE sqlCount
    /\ UNCHANGED <<buildVars, repoVars, failVars, suiteVars, rtVars, lateVars, sqlFilePaths, sqlRun>>

\* the outcome of executeInitialSQL when n files of s.sqlFilePaths succeed
SQLOutcome(n) == IF n = Len(sqlFilePaths) THEN "ok" ELSE "sql"

\* the files among the first n of a list
Executed(list, n) == {list[i] : i \in 1..n}

executeInitialSQL_RunsAll(t, n) ==
    /\ n \in 0..Len(sqlFilePaths)
    /\ SQLInit(t, SQLOutcome(n))
    /\ sqlCount' = [f \in Files |->
                       IF f \in Executed(sqlFilePaths, Len(sqlFilePaths))
                       THEN sqlCount[f] + 1 ELSE sqlCount[f]]
    /\ sqlRun' = Len(sqlFilePaths)
    /\ UNCHANGED <<buildVars, repoVars, failVars, suiteVars, rtVars, lateVars, sqlFilePaths>>

\* executeInitialSQL: the files of s.sqlFilePaths in order, the first n
\* succeed; a file that cannot be read or executed ends the loop with its error
executeInitialSQL(t, n) ==
    /\ n \in 0..Len(sqlFilePaths)
    /\ SQLInit(t, SQLOutcome(n))
    /\ sqlCount' = [f \in Files |->
                       IF f \in Executed(sqlFilePaths, n)
                       THEN sqlCount[f] + 1 ELSE sqlCount[f]]
    /\ sqlRun' = n
    /\ UNCHANGED <<buildVars, repoVars, failVars, suiteVars, rtVars, lateVars, sqlFilePaths>>

NextSQL ==
    \/ \E t \in Threads : StartCall(t, "pg") /\ UNCHANGED otherVars
    \/ \E t \in Threads : FastProbe(t) /\ UNCHANGED otherVars
    \/ \E t \in Threads : FastInc(t) /\ UNCHANGED otherVars
    \/ \E t \in Threads : \E files \in FileLists : StartLockSQL(t, files)
    \/ \E t \in Threads : \E o \in Outcomes("pg") : StartOnceSQL(t, o)
    \/ \E t \in Threads : \E n \in 0..Len(sqlFilePaths) : executeInitialSQL(t, n)
    \/ \E t \in Threads : StartRetOk(t) /\ UNCHANGED otherVars
    \/ \E t \in Threads : StartRetErr(t) /\ UNCHANGED otherVars
    \/ Kill("pg") /\ UNCHANGED otherVars
    \/ Restore("pg") /\ UNCHANGED otherVars

InitPG == Init /\ focus = "pg"

\* goroutines calling Start with file lists on SharedPostgreSQL while the
\* backing service may go down and come back
SpecSQL == InitPG /\ [][NextSQL]_vars

\* Start(ctx, sqlFilePaths...): the call with its list of files
StartSQL(t, files) ==
    /\ StartCall(t, "pg")
    /\ sqlArgs' = [sqlArgs EXCEPT ![t] = files]
    /\ UNCHANGED <<buildVars, repoVars, sqlVars, failVars, suiteVars, rtVars,
                   searchVars, svcVars, wipeVars>>

\* goroutines calling Start on SharedPostgreSQL, each with a list of its own
NextFiles ==
    \/ \E t \in Threads : \E files \in FileLists : StartSQL(t, files)
    \/ \E t \in Threads : FastProbe(t) /\ UNCHANGED otherVars
    \/ \E t \in Threads : FastInc(t) /\ UNCHANGED otherVars
    \/ \E t \in Threads : StartLockSQL(t, sqlArgs[t])
    \/ \E t \in Threads : \E o \in Outcomes("pg") : StartOnceSQL(t, o)
    \/ \E t \in Threads : \E n \in 0..Len(sqlFilePaths) : executeInitialSQL(t, n)
    \/ \E t \in Threads : StartRetOk(t) /\ UNCHANGED otherVars
    \/ \E t \in Threads : StartRetErr(t) /\ UNCHANGED otherVars

SpecFiles == InitPG /\ [][NextFiles]_vars

\* ------------------------------------------------ IntegrationTestSuite
\* s.sharedES / s.sharedMongo / s.sharedPG != nil: NewIntegrationTestSuite
\* sets sharedES only, NewIntegrationTestSuiteWithBuilder sets the brokers of
\* the connections the bundle holds
SharedSet(k) == IF sbuilder THEN k \in conns ELSE k = "es"

\* ES() / Mongo() / Postgres(): "conn" for a non-nil handle, "nil" for nil,
\* "panic" where ES() calls GetClient on the nil s.sharedES
Accessor(k) ==
    IF sbuilder /\ k \in conns THEN "conn"
    ELSE IF k = "es"
         THEN IF ~SharedSet("es") THEN "panic"
              ELSE IF GetClient("es") # Nil THEN "conn" ELSE "nil"
         ELSE IF SharedSet(k) /\ GetClient(k) # Nil THEN "conn" ELSE "nil"

\* CleanIndices / CleanDatabase: an error when the handle is nil or when the
\* listing of indices, collections or tables fails (fails: the kinds where it does)
WipeFails(k, fails) == GetClient(k) = Nil \/ k \in fails

\* CleanElasticsearch / CleanMongo / CleanPostgres: whether the data-wipe was
\* invoked, whether it returned an error, and how the call ended.  The
\* builder's ESClearFunc drops the error; every other path hands it to
\* require.NoError; CleanElasticsearch without a builder calls CleanIndices
\* on s.sharedES, nil or not
CleanKind(k, fails) ==
    IF sbuilder /\ k \in conns
    THEN [inv |-> TRUE, err |-> WipeFails(k, fails),
          res |-> IF k # "es" /\ WipeFails(k, fails) THEN "failed" ELSE "ok"]
    ELSE IF SharedSet(k)
         THEN [inv |-> TRUE, err |-> WipeFails(k, fails),
               res |-> IF WipeFails(k, fails) THEN "failed" ELSE "ok"]
         ELSE [inv |-> FALSE, err |-> FALSE,
               res |-> IF k = "es" THEN "panic" ELSE "ok"]

\* the order in which CleanAll goes through the kinds
CleanOrder == <<"es", "mongo", "pg">>

NoWipe == [inv |-> [k \in Kinds |-> 0], err |-> {}, res |-> "ok"]

\* the result of one Clean... call added to the result so far
After(acc, k, c) ==
    [inv |-> [acc.inv EXCEPT ![k] = @ + (IF c.inv THEN 1 ELSE 0)],
     err |-> acc.err \cup (IF c.err THEN {k} ELSE {}),
     res |-> c.res]

\* CleanAll from its i-th test on: `if s.X() != nil { s.CleanX() }`; a
\* panic or a failed require ends the call
RECURSIVE CleanAllFrom(_, _, _)
CleanAllFrom(i, acc, fails) ==
    IF i > Len(CleanOrder) \/ acc.res # "ok" THEN acc
    ELSE IF Accessor(CleanOrder[i]) = "panic"
         THEN [acc EXCEPT !.res = "panic"]
    ELSE IF Accessor(CleanOrder[i]) = "nil"
         THEN CleanAllFrom(i + 1, acc, fails)
    ELSE CleanAllFrom(i + 1,
             After(acc, CleanOrder[i], CleanKind(CleanOrder[i], fails)), fails)

\* the test of goroutine t can call the operations of its suite
CanUse(t) ==
    /\ ~crashed
    /\ pc[t] = "idle"
    /\ stage[t] = "ready" \/ (sbuilder /\ stage[t] = "new")

\* the end of a suite operation called by t: require.NoError that fails ends
\* the test (t.FailNow), a panic ends the process
Ends(t, name, r, w, e) ==
    /\ op' = name
    /\ res' = r
    /\ wiped' = w
    /\ wipeErr' = e
    /\ crashed' = (crashed \/ r = "panic")
    /\ stage' = [stage EXCEPT ![t] = IF r = "failed" THEN "failed"
                                     ELSE IF name = "Teardown" THEN "done"
                                     ELSE IF name = "Setup" THEN "ready" ELSE @]
    /\ UNCHANGED <<variant, sbuilder, conns>>

SuiteFrame ==
    UNCHANGED <<envVars, brokerVars, threadVars, closed, alive, instances,
                terminated, provCount, kills, shutdowns, buildVars, repoVars,
                sqlVars, failVars, rtVars, lateVars>>

\* Setup: s.sharedES.Start(context.Background()), on a nil s.sharedES a nil
\* dereference in Start
Setup(t) ==
    /\ ~crashed
    /\ pc[t] = "idle"
    /\ stage[t] = "new"
    /\ IF SharedSet("es")
       THEN /\ StartCall(t, "es")
            /\ stage' = [stage EXCEPT ![t] = "setup"]
            /\ UNCHANGED <<variant, sbuilder, conns, op, res, wiped, wipeErr>>
       ELSE /\ Ends(t, "Setup", "panic", NoWipe.inv, {})
            /\ UNCHANGED <<envVars, brokerVars, threadVars, closed, alive,
                           instances, terminated, provCount, kills, shutdowns>>
    /\ UNCHANGED <<buildVars, repoVars, sqlVars, failVars, rtVars, lateVars, unrefreshed>>

\* Setup: Start returned nil
SetupOk(t) ==
    /\ stage[t] = "setup"
    /\ FastInc(t) \/ StartRetOk(t)
    /\ Ends(t, "Setup", "ok", NoWipe.inv, {})
    /\ UNCHANGED <<buildVars, repoVars, sqlVars, failVars, rtVars, lateVars, unrefreshed>>

\* Setup: require.NoError(s.t, err, "Failed to start shared Elasticsearch")
SetupErr(t) ==
    /\ stage[t] = "setup"
    /\ StartRetErr(t)
    /\ Ends(t, "Setup", "failed", NoWipe.inv, {})
    /\ UNCHANGED <<buildVars, repoVars, sqlVars, failVars, rtVars, lateVars, unrefreshed>>

\* Teardown: s.t.Helper() and nothing else
Teardown(t) ==
    /\ ~crashed
    /\ pc[t] = "idle"
    /\ stage[t] = "ready"
    /\ Ends(t, "Teardown", "ok", NoWipe.inv, {})
    /\ SuiteFrame
    /\ UNCHANGED unrefreshed

\* CleanElasticsearch / CleanMongo / CleanPostgres called by the test; the
\* suite of integration_test_base.go has CleanElasticsearch only
Clean(t, k, fails) ==
    LET r == After(NoWipe, k, CleanKind(k, fails)) IN
    /\ CanUse(t)
    /\ variant = "base" => k = "es"
    /\ Ends(t, "Clean", r.res, r.inv, r.err)
    /\ SuiteFrame
    /\ UNCHANGED unrefreshed

\* CleanAll called by the test
CleanAll(t, fails) ==
    LET r == CleanAllFrom(1, NoWipe, fails) IN
    /\ CanUse(t)
    /\ variant = "multi"
    /\ Ends(t, "CleanAll", r.res, r.inv, r.err)
    /\ SuiteFrame
    /\ UNCHANGED unrefreshed

\* a write the test issues on the client ES() returns: IndexDocument and
\* DeleteDocument carry Refresh "wait_for", a request the test builds itself
\* carries what the test sets (refresh: whether it carries one)
Write(t, refresh) ==
    /\ CanUse(t)
    /\ Accessor("es") = "conn"
    /\ unrefreshed < MaxWrites
    /\ unrefreshed' = IF refresh THEN 0 ELSE unrefreshed + 1
    /\ Ends(t, "Write", "ok", NoWipe.inv, {})
    /\ SuiteFrame

\* RefreshIndices: Indices.Refresh on "_all", an error when the client is nil
\* or the request fails
RefreshFails(fails) == GetClient("es") = Nil \/ fails

\* WaitForIndexing: integration_test_base.go returns at its first statement;
\* part_003 calls s.sharedES.RefreshIndices and require.NoError
WaitForIndexing(t, fails) ==
    /\ CanUse(t)
    /\ IF variant = "base"
       THEN /\ Ends(t, "WaitForIndexing", "ok", NoWipe.inv, {})
            /\ UNCHANGED unrefreshed
       ELSE IF ~SharedSet("es")
       THEN /\ Ends(t, "WaitForIndexing", "panic", NoWipe.inv, {})
            /\ UNCHANGED unrefreshed
       ELSE IF RefreshFails(fails)
       THEN /\ Ends(t, "WaitForIndexing", "failed", NoWipe.inv, {})
            /\ UNCHANGED unrefreshed
       ELSE /\ Ends(t, "WaitForIndexing", "ok", NoWipe.inv, {})
            /\ unrefreshed' = 0
    /\ SuiteFrame

NextSuite ==
    \/ \E t \in Threads : Setup(t)
    \/ \E t \in Threads : stage[t] = "setup" /\ FastProbe(t) /\ UNCHANGED otherVars
    \/ \E t \in Threads : stage[t] = "setup" /\ StartLock(t) /\ UNCHANGED otherVars
    \/ \E t \in Threads : \E o \in Outcomes("es") :
           stage[t] = "setup" /\ StartOnce(t, o) /\ UNCHANGED otherVars
    \/ \E t \in Threads : SetupOk(t)
    \/ \E t \in Threads : SetupErr(t)
    \/ \E t \in Threads : Teardown(t)
    \/ \E t \in Threads : \E k \in Kinds : \E fails \in SUBSET {k} : Clean(t, k, fails)
    \/ \E t \in Threads : \E fails \in SUBSET Kinds : CleanAll(t, fails)
    \/ \E t \in Threads : \E refresh \in BOOLEAN : Write(t, refresh)
    \/ \E t \in Threads : \E fails \in BOOLEAN : WaitForIndexing(t, fails)

\* the brokers of the connections a bundle holds, after its Build: started
\* and counted once; the others untouched
InitSuite ==
    /\ focus = "es"
    /\ envReuse \in BOOLEAN
    /\ useExternal \in BOOLEAN
    /\ variant \in {"base", "multi"}
    /\ sbuilder \in BOOLEAN
    /\ variant = "base" => ~sbuilder
    /\ conns \in SUBSET Kinds
    /\ ~sbuilder => conns = {}
    /\ singleton = [k \in Kinds |-> k \in conns]
    /\ mu = [k \in Kinds |-> 0]
    /\ started = [k \in Kinds |-> k \in conns]
    /\ client = [k \in Kinds |-> IF k \in conns THEN 1 ELSE Nil]
    /\ container = [k \in Kinds |-> k \in conns /\ ~useExternal]
    /\ onceDone = [k \in Kinds |-> k \in conns]
    /\ refCount = [k \in Kinds |-> IF k \in conns THEN 1 ELSE 0]
    /\ closed = {}
    /\ alive = [k \in Kinds |-> useExternal \/ k \in conns]
    /\ instances = [k \in Kinds |-> IF k \in conns /\ ~useExternal THEN 1 ELSE 0]
    /\ terminated = [k \in Kinds |-> 0]
    /\ provCount = [k \in Kinds |-> IF k \in conns THEN 1 ELSE 0]
    /\ kills = 0
    /\ shutdowns = 0
    /\ crashed = FALSE
    /\ pc = [t \in Threads |-> "idle"]
    /\ target = [t \in Threads |-> focus]
    /\ err = [t \in Threads |-> NoErr]
    /\ stale = [t \in Threads |-> Nil]
    /\ held = [t \in Threads |-> [k \in Kinds |-> 0]]
    /\ calls = 0
    /\ InitBuilder({})
    /\ InitRepo
    /\ InitSQL
    /\ InitSuiteVars
    /\ InitNoRoundTrip
    /\ InitNoLate

\* the tests of a package, each with its own suite of the same construction,
\* running in parallel
SpecSuite == InitSuite /\ [][NextSuite]_vars

\* ------------------------------------------------------- data-wipes
\* the stores a data-wipe of kind k goes through
WipeStores(k) ==
    CASE k = "es" -> {"es"}
      [] k = "mongo" -> {"mongo", "mongoDW"}
      [] OTHER -> {"pg"}

KindOf(st) == IF st = "mongoDW" THEN "mongo" ELSE st

\* the objects the claim of a clean store is about
User(S) == S \ {SystemObj}

\* the listing of store st fails at listFails ("none": at no store); the main
\* MongoDB database is listed and dropped before the DW database is listed
Reached(st, listFails) ==
    listFails = "none" \/ (st = "mongo" /\ listFails = "mongoDW")

\* the objects the loop of the data-wipe goes through: CleanIndices skips
\* the dot-prefixed names, pg_tables is asked for schema public and a row
\* whose Scan fails (skipped) is passed over, ListCollectionNames is called
\* with an empty filter
Listed(st, skipped) ==
    CASE st = "es" -> User(objs[st])
      [] st = "pg" -> User(objs[st]) \ skipped
      [] OTHER -> objs[st]

\* CleanDatabase of PostgreSQL returns before the loop when there are tables
\* and SET session_replication_role = replica fails
SetAborts(st, skipped, setFails) ==
    st = "pg" /\ setFails /\ Listed(st, skipped) # {}

\* whether the loop over store st runs
Loops(st, listFails, skipped, setFails) ==
    Reached(st, listFails) /\ ~SetAborts(st, skipped, setFails)

\* what store st holds after the data-wipe: the Delete / Drop / TRUNCATE of
\* the objects in dropFails fails, which is printed under debug and no more
Remaining(st, listFails, dropFails, skipped, setFails) ==
    IF Loops(st, listFails, skipped, setFails)
    THEN objs[st] \ (Listed(st, skipped) \ dropFails)
    ELSE objs[st]

\* the data-wipe returns an error: the handle is nil, a listing fails, or
\* the SET before the TRUNCATE loop fails
WipeErr(k, listFails, skipped, setFails) ==
    \/ GetClient(k) = Nil
    \/ listFails # "none"
    \/ \E st \in WipeStores(k) : SetAborts(st, skipped, setFails)

\* CleanIndices (k = "es") and CleanDatabase (k = "mongo", "pg")
DataWipe(k, listFails, dropFails, skipped, setFails) ==
    /\ listFails \in {"none"} \cup WipeStores(k)
    /\ objs' = IF GetClient(k) = Nil THEN objs
               ELSE [st \in Stores |->
                        IF st \in WipeStores(k)
                        THEN Remaining(st, listFails, dropFails, skipped, setFails)
                        ELSE objs[st]]
    /\ wret' = [kind |-> k,
                err |-> WipeErr(k, listFails, skipped, setFails),
                failed |-> /\ GetClient(k) # Nil
                           /\ \E st \in WipeStores(k) :
                                 /\ Loops(st, listFails, skipped, setFails)
                                 /\ User(Listed(st, skipped)) \cap dropFails # {},
                left |-> UNION {User(objs[st]) \cap objs'[st] : st \in WipeStores(k)}]

\* a test creates an index or a collection, or inserts rows into a table,
\* through the connection of a started broker
CreateObject(st, o) ==
    /\ GetClient(KindOf(st)) # Nil
    /\ o \notin objs[st]
    /\ objs' = [objs EXCEPT ![st] = @ \cup {o}]
    /\ wret' = << >>

wipeFrame ==
    UNCHANGED <<envVars, brokerVars, worldVars, threadVars, buildVars, repoVars,
                sqlVars, failVars, suiteVars, rtVars, searchVars, svcVars, sqlArgs>>

NextWipe ==
    \/ \E st \in Stores : \E o \in Objects : CreateObject(st, o) /\ wipeFrame
    \/ \E k \in Kinds : \E listFails \in {"none"} \cup WipeStores(k) :
       \E dropFails \in SUBSET (UNION {objs[st] : st \in WipeStores(k)}) :
       \E skipped \in (IF k = "pg" THEN SUBSET User(objs["pg"]) ELSE {{}}) :
       \E setFails \in (IF k = "pg" THEN BOOLEAN ELSE {FALSE}) :
          DataWipe(k, listFails, dropFails, skipped, setFails) /\ wipeFrame

\* a bundle of any set of kinds after its Build
InitWipe == InitSuite /\ sbuilder /\ useExternal /\ envReuse

SpecWipe == InitWipe /\ [][NextWipe]_vars

\* ------------------------------------- Create / GetByID through JSON
\* strings are numbered; InvalidUTF8 stands for a Go string holding bytes
\* that are not UTF-8, Replacement for the string json.Marshal writes in its
\* place (U+FFFD); EmptyID is the string ""; NaN a float64 json.Marshal
\* refuses; AutoID the document ID Elasticsearch generates for a POST
InvalidUTF8 == -1
Replacement == -2
EmptyID == 0
NaN == -1
AutoID == NumIDs + 1

Names == 1..NumNames
Prices == 1..NumPrices
Products ==
    [id : IDs \cup {EmptyID}, name : Names \cup {InvalidUTF8},
     price : Prices \cup {NaN}, tenant : Tenants \cup {InvalidUTF8}]

\* no document under a document ID
NoJSON == [id |-> << >>, name |-> << >>, price |-> << >>, tenant_id |-> << >>]

\* what GetByID returns: (nil, nil), (nil, err) and (&product, nil)
NilNil == [err |-> FALSE, product |-> {}]
NilErr == [err |-> TRUE, product |-> {}]
Returned(q) == [err |-> FALSE, product |-> {q}]

\* the product a test writes under another ID next to p
Other(i) == [arg EXCEPT !.id = i]

\* json.Marshal of a string: a JSON string, invalid bytes replaced
QuoteString(s) == <<"string", IF s = InvalidUTF8 THEN Replacement ELSE s>>

\* json.Marshal of a float64: a JSON number in the shortest form that parses
\* back to the same value
FormatFloat(f) == <<"number", f>>

\* json.Marshal(product): the fields under their json tags
Marshal(p) ==
    [id |-> QuoteString(p.id), name |-> QuoteString(p.name),
     price |-> FormatFloat(p.price), tenant_id |-> QuoteString(p.tenant)]

Unmarshal_MissesPrice(j) ==
    [id |-> j.id[2], name |-> j.name[2], price |-> 0, tenant |-> j.tenant_id[2]]

\* json.Unmarshal(sourceJSON, &product): a JSON string into a string field,
\* a JSON number into the float64 field
Unmarshal(j) ==
    [id |-> j.id[2], name |-> j.name[2], price |-> j.price[2],
     tenant |-> j.tenant_id[2]]

\* the document the index answers a GET of id with; a request without a
\* document ID is no GET of a document
Found(id) == id # EmptyID /\ docs[id] # NoJSON

\* Create: json.Marshal, then the IndexRequest with DocumentID product.ID;
\* accepted says whether Elasticsearch takes the request.  Without a
\* DocumentID the request is a POST and the document gets a generated ID
CreateJSON(p, accepted) ==
    /\ creates < MaxCreates
    /\ creates' = creates + 1
    /\ p = arg \/ created = "ok"
    /\ got' = <<>>
    /\ IF p.price # NaN /\ accepted
       THEN /\ docs' = [docs EXCEPT ![IF p.id = EmptyID THEN AutoID ELSE p.id] = Marshal(p)]
            /\ written' = written \cup {p.id}
            /\ created' = IF p = arg THEN "ok" ELSE created
       ELSE /\ UNCHANGED <<docs, written>>
            /\ created' = IF p = arg /\ created # "ok" THEN "err" ELSE created
    /\ UNCHANGED arg

\* GetByID: 404 gives (nil, nil), another error status gives the error, a
\* document of another tenant gives (nil, nil).  status is what the server
\* answers a GET that names no document with
GetByIDJSON(id, tenantID, status) ==
    IF id = EmptyID THEN (IF status = 404 THEN NilNil ELSE NilErr)
    ELSE IF ~Found(id) THEN NilNil
    ELSE IF Unmarshal(docs[id]).tenant # tenantID THEN NilNil
    ELSE Returned(Unmarshal(docs[id]))

\* a test calls GetByID and keeps what it returned
GetCall(id, tenantID, status) ==
    /\ got' = <<id, tenantID, GetByIDJSON(id, tenantID, status)>>
    /\ UNCHANGED <<docs, arg, created, written, creates>>

rtFrame ==
    UNCHANGED <<envVars, brokerVars, worldVars, threadVars, buildVars, repoVars,
                sqlVars, failVars, suiteVars, lateVars>>

NextRoundTrip ==
    \/ \E accepted \in BOOLEAN : CreateJSON(arg, accepted) /\ rtFrame
    \/ \E i \in IDs \ {arg.id} : \E accepted \in BOOLEAN :
           CreateJSON(Other(i), accepted) /\ rtFrame
    \/ \E i \in IDs \cup {EmptyID} : \E t \in Tenants \cup {InvalidUTF8} :
           \E status \in {404, 405} : GetCall(i, t, status) /\ rtFrame

\* a test with a product p of its choice
InitRoundTrip ==
    /\ InitBroker(Threads)
    /\ InitBuilder({})
    /\ InitRepo
    /\ InitSQL
    /\ InitNoSuite
    /\ InitNoLate
    /\ focus = "es"
    /\ envReuse = FALSE
    /\ useExternal = FALSE
    /\ arg \in Products
    /\ docs = [i \in IDs \cup {AutoID} |-> NoJSON]
    /\ created = "none"
    /\ got = << >>
    /\ written = {}
    /\ creates = 0

\* Create of a product, Creates of products with other IDs, and GetByID
SpecRoundTrip == InitRoundTrip /\ [][NextRoundTrip]_vars

\* --------------------------------------------------- search results
\* the number of hits Elasticsearch returns for a search request that sets
\* no size
DefaultSize == 10

\* the products of one test: one more than a response holds
MaxBulk == DefaultSize + 1

\* the tenant of the test that creates the products
TestTenant == 1

\* the positions of bulk whose document the bool/must query matches
BulkMatches(category, tenantID) ==
    {i \in 1..Len(bulk) : bulk[i].category = category /\ bulk[i].tenant = tenantID}

\* the hit lists the index can answer with: all matches, or DefaultSize of them
Pages(M) ==
    {S \in SUBSET M :
        Cardinality(S) = IF Cardinality(M) < DefaultSize THEN Cardinality(M)
                         ELSE DefaultSize}

\* SearchByCategory on the products created in bulk: the SearchRequest
\* carries Index and Body only; every hit of the response is decoded and
\* returned
SearchHits(category, tenantID) == Pages(BulkMatches(category, tenantID))

\* Create of the next product of the test, each under an ID of its own
BulkCreate(category) ==
    /\ Len(bulk) < MaxBulk
    /\ bulk' = Append(bulk, Doc(TestTenant, category))
    /\ found' = << >>

\* a test calls SearchByCategory and keeps what it returned
SearchCall(category, tenantID) ==
    /\ \E page \in SearchHits(category, tenantID) :
           found' = <<category, tenantID, page>>
    /\ UNCHANGED bulk

searchFrame ==
    UNCHANGED <<envVars, brokerVars, worldVars, threadVars, buildVars, repoVars,
                sqlVars, failVars, suiteVars, rtVars, svcVars, wipeVars, sqlArgs>>

NextSearch ==
    \/ \E c \in Cats : BulkCreate(c) /\ searchFrame
    \/ \E c \in Cats : \E t \in Tenants : SearchCall(c, t) /\ searchFrame

\* a test that creates products one after the other and searches
SpecSearch == Init /\ [][NextSearch]_vars

\* ------------------------------------------------------ ProductService
\* the empty string as Name, ID, category or tenant ID; a price below zero
EmptyString == EmptyID
NegPrice == -2

\* the requests of a test: p itself, p without a name, p with a negative price
Requests == {arg, [arg EXCEPT !.name = EmptyString], [arg EXCEPT !.price = NegPrice]}

\* product.Price < 0 on float64: false for NaN
Negative(f) == f # NaN /\ f < 0

\* what a service call leaves in svc: the request, whether it returned an
\* error, whether it called the repository
Call(name, p, category, e, c) ==
    [op |-> name, id |-> p.id, name |-> p.name, price |-> p.price,
     tenant |-> p.tenant, category |-> category, err |-> e, called |-> c]

\* an ID and a tenant ID as the request of a read
Key(id, tenantID) == [id |-> id, name |-> EmptyString, price |-> 0, tenant |-> tenantID]

CreateProduct_NoPriceCheck(p, accepted) ==
    IF p.name = EmptyString
    THEN /\ svc' = Call("CreateProduct", p, EmptyString, TRUE, FALSE)
         /\ UNCHANGED rtVars
    ELSE /\ CreateJSON(p, accepted)
         /\ svc' = Call("CreateProduct", p, EmptyString,
                        ~(p.price # NaN /\ accepted), TRUE)

\* CreateProduct: the two validations, then s.repo.Create
CreateProduct(p, accepted) ==
    IF p.name = EmptyString \/ Negative(p.price)
    THEN /\ svc' = Call("CreateProduct", p, EmptyString, TRUE, FALSE)
         /\ UNCHANGED rtVars
    ELSE /\ CreateJSON(p, accepted)
         /\ svc' = Call("CreateProduct", p, EmptyString,
                        ~(p.price # NaN /\ accepted), TRUE)

\* GetProductByID: the two validations, then s.repo.GetByID
GetProductByID(id, tenantID, status) ==
    /\ IF id = EmptyString \/ tenantID = EmptyString
       THEN svc' = Call("GetProductByID", Key(id, tenantID), EmptyString, TRUE, FALSE)
       ELSE svc' = Call("GetProductByID", Key(id, tenantID), EmptyString,
                        GetByIDJSON(id, tenantID, status).err, TRUE)
    /\ UNCHANGED rtVars

\* GetProductsByCategory: the two validations, then s.repo.SearchByCategory,
\* which fails or not (fails)
GetProductsByCategory(category, tenantID, fails) ==
    /\ IF category = EmptyString \/ tenantID = EmptyString
       THEN svc' = Call("GetProductsByCategory", Key(EmptyString, tenantID), category,
                        TRUE, FALSE)
       ELSE svc' = Call("GetProductsByCategory", Key(EmptyString, tenantID), category,
                        fails, TRUE)
    /\ UNCHANGED rtVars

\* GetExpensiveProducts: the validation of the tenant ID, then
\* s.repo.SearchByCategory(ctx, "electronics", tenantID)
GetExpensiveProducts(tenantID, fails) ==
    /\ IF tenantID = EmptyString
       THEN svc' = Call("GetExpensiveProducts", Key(EmptyString, tenantID), EmptyString,
                        TRUE, FALSE)
       ELSE svc' = Call("GetExpensiveProducts", Key(EmptyString, tenantID), EmptyString,
                        fails, TRUE)
    /\ UNCHANGED rtVars

svcFrame ==
    UNCHANGED <<envVars, brokerVars, worldVars, threadVars, buildVars, repoVars,
                sqlVars, failVars, suiteVars, searchVars, wipeVars, sqlArgs>>

NextService ==
    \/ \E p \in Requests : \E accepted \in BOOLEAN : CreateProduct(p, accepted) /\ svcFrame
    \/ \E i \in IDs \cup {EmptyString} : \E t \in Tenants \cup {EmptyString} :
           \E status \in {404, 405} : GetProductByID(i, t, status) /\ svcFrame
    \/ \E c \in Cats \cup {EmptyString} : \E t \in Tenants \cup {EmptyString} :
           \E fails \in BOOLEAN : GetProductsByCategory(c, t, fails) /\ svcFrame
    \/ \E t \in Tenants \cup {EmptyString} : \E fails \in BOOLEAN :
           GetExpensiveProducts(t, fails) /\ svcFrame

\* a test with a valid product p of its choice and a service on an empty index
InitService ==
    /\ InitBroker(Threads)
    /\ InitBuilder({})
    /\ InitRepo
    /\ InitSQL
    /\ InitNoSuite
    /\ InitNoLate
    /\ focus = "es"
    /\ envReuse = FALSE
    /\ useExternal = FALSE
    /\ arg \in [id : IDs, name : Names, price : Prices \cup {0, NaN}, tenant : Tenants]
    /\ docs = [i \in IDs \cup {AutoID} |-> NoJSON]
    /\ created = "none"
    /\ got = << >>
    /\ written = {}
    /\ creates = 0

SpecService == InitService /\ [][NextService]_vars

\* ------------------------------------------------------------ claims
RECURSIVE SumHeld(_, _)
SumHeld(S, k) == IF S = {} THEN 0
                 ELSE LET t == CHOOSE x \in S : TRUE
                      IN held[t][k] + SumHeld(S \ {t}, k)

Quiescent == \A t \in Threads : pc[t] = "idle"

\* C1: when N goroutines only call Start on a broker that is not started, every
\* provisioning phase succeeds and the service stays up, startContainer runs
\* exactly once and every call returns nil with started = true and a handle.
C1_SingleFlight ==
    /\ provCount[focus] <= 1
    /\ \A t \in Threads : pc[t] \notin {"ret_err", "panicked"}
    /\ \A t \in Threads :
          (pc[t] \in {"fast_inc", "ret_ok"} \/ held[t][focus] > 0) =>
              /\ started[focus]
              /\ client[focus] # Nil
              /\ provCount[focus] = 1

C1_Witness ==
    /\ \A t \in Threads : pc[t] = "idle" /\ held[t][focus] > 0
    /\ refCount[focus] = NumThreads
    /\ provCount[focus] = 1

\* C2: while refCount > 0 the shared handle is open: it is closed only by a Stop
\* that brought refCount to zero and never under a caller that holds a Start.
C2_HandleOpenWhileHeld ==
    \A k \in Kinds : refCount[k] > 0 => client[k] # Nil /\ client[k] \notin closed

\* C3: after K successful Starts and K matched Stops, in any interleaving,
\* refCount is back at its value before them; in general refCount is the
\* number of successful Starts not yet released.
C3_MatchedReturnsToBase ==
    \A k \in Kinds : shutdowns = 0 => refCount[k] = SumHeld(Threads, k)

C3_Witness ==
    /\ Quiescent
    /\ shutdowns = 0
    /\ started[focus]
    /\ calls > 1
    /\ \A t \in Threads : held[t][focus] = 0
    /\ refCount[focus] = 0

\* C4: refCount is never negative, whatever Start, Stop and
\* CleanupSharedResources calls are made.
C4_RefCountNonNegative == \A k \in Kinds : refCount[k] >= 0

\* C5: a Start whose probe under the lock found the handle dead either runs
\* startContainer again and returns nil with a fresh, open handle, or returns an
\* error; it never returns nil with the stale handle.
C5_NoStaleHandle ==
    \A t \in Threads : stale[t] # Nil =>
        /\ pc[t] # "panicked"
        /\ pc[t] = "ret_ok" =>
              /\ started[target[t]]
              /\ client[target[t]] # stale[t]
              /\ client[target[t]] \notin closed
              /\ client[target[t]] = provCount[target[t]]

\* C6: the accessors return no handle while the broker is not Ready (not
\* started, or its handle closed by teardown).
C6_AccessorOnlyWhenReady ==
    \A k \in Kinds :
        (mu[k] = 0 /\ ~(started[k] /\ client[k] \notin closed)) => GetClient(k) = Nil

\* C7: a Start that returns an error leaves started = false and does not change
\* refCount.
C7_ErrorLeavesNotReady ==
    [][\A t \in Threads :
          ((pc[t] = "ret_err" \/ pc'[t] = "ret_err") /\ pc'[t] # pc[t]) =>
              /\ ~started'[target'[t]]
              /\ refCount'[target'[t]] = refCount[target'[t]]]_vars

C7_Witness == \E t \in Threads : pc[t] = "ret_err" /\ refCount[target[t]] > 0

\* C8: a provisioning failure in any phase, for every kind and variant, reaches
\* the caller of Start as a returned error: Start neither returns nil nor aborts.
C8_FailureReturned ==
    \A t \in Threads :
        /\ pc[t] # "panicked"
        /\ pc[t] = "ret_ok" => err[t] = NoErr

\* C9: every error Start returns wraps a non-nil cause of a provisioning attempt.
C9_ErrorCarriesCause == \A t \in Threads : pc[t] = "ret_err" => err[t] # NoErr

\* C10: the instance is terminated exactly by a Stop that reaches zero while the
\* reuse policy (TEST_CONTAINER_REUSE) is false.
C10_TerminateIffZeroAndNoReuse ==
    [][\A k \in Kinds :
          (terminated'[k] > terminated[k]) <=>
              (\E t \in Threads :
                  /\ pc[t] = "stopping" /\ pc'[t] = "idle" /\ target[t] = k
                  /\ container[k] /\ ~envReuse)]_vars

\* C11: with the reuse policy true, a Stop that brings refCount to zero leaves
\* the instance and the handle intact: nothing is closed, disconnected or
\* terminated, so the next Start reuses the handle.
C11_ReuseKeepsHandle ==
    [][\A t \in Threads :
          (pc[t] = "stopping" /\ pc'[t] = "idle" /\ envReuse) =>
              /\ closed' = closed
              /\ instances' = instances
              /\ terminated' = terminated]_vars

\* C12: with the reuse policy false, a Stop that brings refCount to zero resets
\* the broker to NotStarted: started = false and the handle cleared.
C12_StopResetsState ==
    [][\A t \in Threads :
          (pc[t] = "stopping" /\ pc'[t] = "idle" /\ ~envReuse) =>
              /\ ~started'[target[t]]
              /\ client'[target[t]] = Nil]_vars

\* kinds whose Start returned an error in the Build in progress
FailedKinds == {k \in Kinds : task[k] = "err"}

\* C13: a Build of which a non-empty subset F of the requested kinds fail to
\* start returns a nil bundle and an error naming every kind in F and no kind
\* outside F: no failing acquisition ends the Build otherwise.
C13_AggregateError ==
    /\ \A k \in Kinds : pc[TaskOf(k)] # "panicked"
    /\ \A c \in Callers :
          mode[c] \in {"rollback", "ret_fail", "ret_ok"} =>
              /\ errors = FailedKinds
              /\ FailedKinds # {} => mode[c] # "ret_ok"

\* C14: when Build fails, every broker whose Start succeeded during that Build
\* has been released by exactly one Stop when Build returns, its refCount back
\* at the value before the call; brokers whose Start failed are not stopped.
C14_RollbackReleasesOnce ==
    \A c \in Callers :
        mode[c] = "ret_fail" =>
            \A k \in Kinds :
                /\ stops[c][k] = IF task[k] = "ok" THEN 1 ELSE 0
                /\ refCount[k] = pre[k]

\* C15: two successful Build calls on the same builder return the identical
\* bundle instance.
C15_SameBundle ==
    \A c1, c2 \in Callers :
        (/\ obj[c1] = "b" /\ bres[c1] \in Objs
         /\ obj[c2] = "b" /\ bres[c2] \in Objs) => bres[c1] = bres[c2]

\* C16: after a successful Build, no further Build call on the builder or on
\* the returned bundle, sequential or concurrent, calls Start on a broker,
\* provisions or changes a reference count: only Cleanup's Stop changes one.
C16_BuildOnce ==
    [][built =>
          /\ calls' = calls
          /\ provCount' = provCount
          /\ task' = task
          /\ builds' = builds
          /\ refCount' # refCount =>
                \E c \in Callers : mode[c] = "cleanup" /\ idx'[c] = idx[c] - 1]_vars

\* after a Build that acquired brokers, one caller was answered by a further
\* Build on the builder and another by a Build on the returned bundle
C16_Witness ==
    /\ built /\ needs # {}
    /\ \E c1, c2 \in Callers :
          /\ obj[c1] = "b" /\ bres[c1] = "b"
          /\ obj[c2] = "bundle" /\ bres[c2] = "bundle"

\* C17: one Cleanup on the bundle a successful Build returned calls Stop
\* exactly once on every broker that Build acquired and on no other broker,
\* in whatever order the acquisitions completed.
C17_CleanupStopsEachOnce ==
    \A c \in Callers :
        (mode[c] = "ret_cleanup" /\ obj[c] = "bundle") =>
            \A k \in Kinds : stops[c][k] = IF task[k] = "ok" THEN 1 ELSE 0

\* a Cleanup of a bundle of all three kinds is about to return, PostgreSQL
\* having completed before Elasticsearch
C17_Witness ==
    \E c \in Callers :
        /\ mode[c] = "ret_cleanup" /\ obj[c] = "bundle"
        /\ Len(cleanupFuncs) = 3
        /\ cleanupFuncs[1] = "pg" /\ cleanupFuncs[3] = "es"

\* C18: Build starts one task per requested kind and goes past its wait only
\* after every task has finished its Start call; the success / failure decision
\* is taken over the results of all tasks, and no Start issued by a Build is in
\* flight once no Build is in progress.
C18_WaitsForAllTasks ==
    /\ \A c \in Callers :
          mode[c] \in {"build", "rollback", "ret_fail", "ret_ok"} =>
              \A k \in Kinds : (task[k] # "none") <=> (k \in needs)
    /\ \A c \in Callers :
          mode[c] \in {"rollback", "ret_fail", "ret_ok"} =>
              /\ \A k \in needs : task[k] \in {"ok", "err"}
              /\ \A k \in Kinds : pc[TaskOf(k)] = "idle"
              /\ (mode[c] = "ret_ok") <=> (\A k \in needs : task[k] = "ok")
    /\ (\A c \in Callers : mode[c] # "build") =>
          \A k \in Kinds : pc[TaskOf(k)] = "idle"

\* a Build of two kinds or more is past its wait with one task failed and
\* another succeeded
C18_Witness ==
    \E c \in Callers :
        /\ mode[c] = "rollback"
        /\ \E k1, k2 \in needs : task[k1] = "ok" /\ task[k2] = "err"

C20_OwnRecordReadable ==
    \A t \in Tenants : \A i \in IDs :
        mine[t][i] # NoDoc => GetByID(i, t) = mine[t][i]

\* C21: the SQL initialization files are executed once per physical PostgreSQL
\* instance, as part of provisioning it afresh: no file is executed a second
\* time against an instance that already received it.
C21_SQLOncePerInstance == \A f \in Files : sqlCount[f] <= 1

\* C22: when reading or executing an SQL initialization file fails, the Start
\* call that triggered it returns that error, no later file of the list has
\* been executed, the broker is not marked started and refCount is not
\* incremented.
C22_SQLFailurePropagates ==
    [][\A t \in Threads :
          (pc[t] = "ret_err" /\ err[t] = "sql") =>
              /\ ~started["pg"]
              /\ sqlRun < Len(sqlFilePaths)
              /\ pc'[t] = "idle" =>
                    /\ refCount' = refCount
                    /\ held'[t] = held[t]
                    /\ ~started'["pg"]]_vars

\* a Start given two files is about to return the error of the second file,
\* the first having been executed
C22_Witness ==
    \E t \in Threads :
        /\ pc[t] = "ret_err" /\ err[t] = "sql"
        /\ Len(sqlFilePaths) = 2 /\ sqlRun = 1

\* C23: once the process-level teardown (TestMain -> cleanup ->
\* CleanupSharedResources) has run and returned, no broker kind that was
\* started under reuse policy false still has its container running,
\* whatever its refCount was.
C23_TeardownStopsAll ==
    [][(~envReuse /\ ~crashed) =>
          /\ (shutdowns' = shutdowns + 1 /\ Quiescent') =>
                \A k \in Kinds : started'[k] => instances'[k] = 0
          /\ \A t \in Threads :
                (shutdowns > 0 /\ pc[t] = "stopping" /\ pc'[t] = "idle") =>
                    (started'[target[t]] => instances'[target[t]] = 0)]_vars

\* the number of callbacks registered for kind k among the first i
RECURSIVE Registered(_, _)
Registered(k, i) ==
    IF i = 0 THEN 0
    ELSE Registered(k, i - 1) + (IF cleanupFuncs[i] = k THEN 1 ELSE 0)

\* C24: a failure of a broker's Stop during the bundle's Cleanup or during
\* Build's rollback does not reach the caller and does not keep the remaining
\* registered brokers from being released: every registered callback has run
\* when cleanup is over, and the error list of a failed Build holds no Stop
\* failure.
C24_StopFailureContained ==
    \A c \in Callers :
        mode[c] \in {"ret_cleanup", "ret_fail"} =>
            /\ \A k \in Kinds : stops[c][k] = Registered(k, Len(cleanupFuncs))
            /\ mode[c] = "ret_fail" => errors = FailedKinds

\* a Cleanup is over whose first Stop (of the last registered broker) failed
\* and which had another broker to release after it
C24_Witness ==
    \E c \in Callers :
        /\ mode[c] = "ret_cleanup"
        /\ Len(cleanupFuncs) >= 2
        /\ cleanupFuncs[Len(cleanupFuncs)] \in stopFailed[c]
        /\ cleanupFuncs[1] \notin stopFailed[c]

\* C25: for a suite built through the builder with a non-empty set of kinds,
\* a CleanAll whose data-wipes all succeed has invoked the data-wipe of each
\* kind of the set once, of no other kind, and has not panicked.
C25_CleanAllExactlyRequested ==
    (op = "CleanAll" /\ sbuilder /\ conns # {} /\ wipeErr = {}) =>
        /\ res # "panic"
        /\ wiped = [k \in Kinds |-> IF k \in conns THEN 1 ELSE 0]

\* C26: a data-wipe that returns an error to CleanElasticsearch, CleanMongo,
\* CleanPostgres or CleanAll does not fail the test that called it.
C26_WipeFailureHandledLocally ==
    (op \in {"Clean", "CleanAll"} /\ wipeErr # {}) => res = "ok"

\* refCount of the Elasticsearch broker before any Setup of the run
SuiteBase == IF "es" \in conns THEN 1 ELSE 0

\* C27: once every test that called Setup has called Teardown, refCount of
\* the Elasticsearch broker is what it was before the first Setup.
C27_TeardownReleases ==
    (/\ \A t \in Threads : stage[t] \in {"new", "done"}
     /\ \E t \in Threads : stage[t] = "done") =>
        refCount["es"] = SuiteBase

\* C28: at most one container per broker kind runs at any time, also after a
\* re-provisioning that follows a failed health probe.
C28_OneInstancePerKind == \A k \in Kinds : instances[k] <= 1

\* a second provisioning of the kind succeeded while its container ran
C28_Witness ==
    /\ ~useExternal
    /\ provCount[focus] = 2
    /\ client[focus] = 2
    /\ instances[focus] = 1

\* C29: when WaitForIndexing has returned, every write made before it has
\* been followed by a refresh.
C29_WaitForIndexingRefreshes ==
    (op = "WaitForIndexing" /\ res = "ok") => unrefreshed = 0

\* the GetByID made since the last write asked for p.ID under p.TenantID,
\* after a Create(p) that returned nil
ReadBack ==
    /\ created = "ok"
    /\ got # << >>
    /\ got[1] = arg.id
    /\ got[2] = arg.tenant

\* it returned a product equal to p in ID, Name, Price and TenantID
EqualToArg ==
    /\ ~got[3].err
    /\ \E r \in got[3].product :
           r.id = arg.id /\ r.name = arg.name /\ r.price = arg.price /\ r.tenant = arg.tenant

PlainText == arg.id # EmptyID /\ arg.name # InvalidUTF8 /\ arg.tenant # InvalidUTF8

C31_SearchExact ==
    found # << >> => found[3] = BulkMatches(found[1], found[2])

\* the request of the last service call is one the service has to reject
InvalidRequest(r) ==
    /\ r # << >>
    /\ CASE r.op = "CreateProduct" -> r.name = EmptyString \/ r.price = NegPrice
         [] r.op = "GetProductByID" -> r.id = EmptyString \/ r.tenant = EmptyString
         [] r.op = "GetProductsByCategory" ->
                r.category = EmptyString \/ r.tenant = EmptyString
         [] OTHER -> r.tenant = EmptyString

\* C32: a CreateProduct with an empty Name or a negative Price, a
\* GetProductByID with an empty ID, a GetProductsByCategory with an empty
\* category and any read with an empty tenant ID returns an error, calls no
\* repository method and leaves the index as it was.
C32_RejectsInvalid ==
    [][InvalidRequest(svc') => (svc'.err /\ ~svc'.called /\ docs' = docs)]_vars

\* a product with a negative price was rejected while the index held a product
C32_Witness ==
    /\ svc # << >>
    /\ svc.op = "CreateProduct"
    /\ svc.price = NegPrice
    /\ svc.name # EmptyString
    /\ svc.err
    /\ created = "ok"

\* C33: a Start call that gets past the double-check of a broker that is not
\* started runs startContainer: also when an earlier call failed in
\* provisioning, the call makes a fresh provisioning attempt.
C33_RetriesAfterFailure ==
    [][\A t \in Threads :
          (pc[t] = "once" /\ pc'[t] # "once") =>
              provCount'[target[t]] = provCount[target[t]] + 1]_vars


\* C34: once a Build has succeeded, Cleanup calls on the builder and on the
\* returned copy, however many, release each acquired broker once: no
\* refCount falls below the value it had before the Build.
C34_ReleaseIdempotent ==
    built => \A k \in Kinds : refCount[k] >= pre[k]


\* C35: over the Builds of one builder, failed and rolled back or successful,
\* the Stop calls made by the rollbacks and by the Cleanup of the returned
\* copy are as many as the successful Start calls on each broker: when a
\* rollback or the Cleanup is over, every refCount is back at the value it had
\* before the first Build.
C35_StopsMatchStarts ==
    \A c \in Callers :
        mode[c] \in {"ret_fail", "ret_cleanup"} =>
            \A k \in Kinds : refCount[k] = 0


\* C36: when Start(ctx, files...) of SharedPostgreSQL returns nil, on the fast
\* path or under the lock, every file of the caller's list has been executed
\* against the instance the broker is connected to.
C36_CallerFilesExecuted ==
    [][\A t \in Threads :
          (pc[t] \in {"fast_inc", "ret_ok"} /\ pc'[t] = "idle") =>
              \A i \in 1..Len(sqlArgs[t]) : sqlCount'[sqlArgs[t][i]] > 0]_vars


\* the positions of a goroutine that holds s.mu: inside Start past s.mu.Lock
Holding == {"once", "sqlinit", "ret_ok", "ret_err"}

C38_WipeSuccessMeansClean ==
    wret # << >> =>
        /\ ~wret.err => wret.left = {}
        /\ wret.failed => wret.err

====
